---------------------------- MODULE Spec2Model ----------------------------
(* elm-spa-migrate: the block scanner (Page::parse), the archetype         *)
(* transformation (Page::to), the templates (PageType::*_template) and the *)
(* renderer (Display for Block / Page) of src/main.rs.                     *)
(*                                                                         *)
(* A Rust String is modelled as the sequence of its characters, so that    *)
(* prefixes, substrings, trimming and splitting are computed the way the   *)
(* standard library computes them.  An ASCII character is the string of    *)
(* that one character; a character outside ASCII is the string of its code *)
(* point, "U+" and four hexadecimal digits: "U+3000" is one character, the *)
(* ideographic space.  None is <<>> and Some(e) is <<e>>.                  *)
EXTENDS Integers, Sequences, FiniteSets, TLC

VARIABLES text, pagetype, shared, request, pc, page, written

vars == <<text, pagetype, shared, request, pc, page, written>>

----------------------------------------------------------------------------
(* Bounds of the model.                                                    *)

MaxLines == 3

----------------------------------------------------------------------------
(* std::str / std::string operations used by main.rs.                      *)

None == <<>>

Some(e) == <<e>>

\* char::is_whitespace: the 25 characters with the Unicode property
\* White_Space - U+0009 to U+000D, U+0020, U+0085, U+00A0, U+1680, U+2000 to
\* U+200A, U+2028, U+2029, U+202F, U+205F and U+3000
IsWhitespace(c) ==
    c \in {"\t", "\n", "", "\f", "\r", " ",
        "U+0085", "U+00A0", "U+1680", "U+2000", "U+2001", "U+2002",
        "U+2003", "U+2004", "U+2005", "U+2006", "U+2007", "U+2008",
        "U+2009", "U+200A", "U+2028", "U+2029", "U+202F", "U+205F",
        "U+3000"}

\* str::starts_with
StartsWith(s, p) == Len(s) >= Len(p) /\ SubSeq(s, 1, Len(p)) = p

\* str::ends_with
EndsWith(s, p) == Len(s) >= Len(p) /\ SubSeq(s, Len(s) - Len(p) + 1, Len(s)) = p

\* str::contains
Contains(s, p) ==
    \E i \in 1..(Len(s) - Len(p) + 1) : \A j \in 1..Len(p) : s[i + j - 1] = p[j]

\* str::trim_end
RECURSIVE TrimEnd(_)
TrimEnd(s) ==
    IF s = <<>> \/ ~IsWhitespace(s[Len(s)]) THEN s
    ELSE TrimEnd(SubSeq(s, 1, Len(s) - 1))

\* str::trim_start
RECURSIVE TrimStart(_)
TrimStart(s) ==
    IF s = <<>> \/ ~IsWhitespace(s[1]) THEN s
    ELSE TrimStart(SubSeq(s, 2, Len(s)))

\* str::trim
Trim(s) == TrimStart(TrimEnd(s))

\* str::trim_start_matches: the prefix is removed as often as it occurs
RECURSIVE TrimStartMatches(_, _)
TrimStartMatches(s, p) ==
    IF p # <<>> /\ StartsWith(s, p)
    THEN TrimStartMatches(SubSeq(s, Len(p) + 1, Len(s)), p)
    ELSE s

\* the least index >= i of the character c in s, Len(s) + 1 when there is none
IndexFrom(s, i, c) ==
    CHOOSE k \in i..(Len(s) + 1) :
        /\ k = Len(s) + 1 \/ s[k] = c
        /\ \A m \in i..(k - 1) : s[m] # c

\* Iterator::take_while(|c| c != stop) over the characters of s
TakeUntil(s, stop) == SubSeq(s, 1, IndexFrom(s, 1, stop) - 1)

\* Iterator::skip_while(|c| c != stop).skip(1) over the characters of s
SkipPast(s, stop) == SubSeq(s, IndexFrom(s, 1, stop) + 1, Len(s))

\* the least index >= i of a whitespace (ws) or non-whitespace (~ws)
\* character, Len(s) + 1 when there is none
ScanTo(s, i, ws) ==
    CHOOSE k \in i..(Len(s) + 1) :
        /\ k = Len(s) + 1 \/ IsWhitespace(s[k]) = ws
        /\ \A m \in i..(k - 1) : IsWhitespace(s[m]) # ws

\* str::split_whitespace, collected
RECURSIVE SplitWhitespaceFrom(_, _)
SplitWhitespaceFrom(s, i) ==
    LET b == ScanTo(s, i, FALSE)
        e == ScanTo(s, b, TRUE)
    IN  IF b > Len(s) THEN <<>>
        ELSE <<SubSeq(s, b, e - 1)>> \o SplitWhitespaceFrom(s, e)

SplitWhitespace(s) == SplitWhitespaceFrom(s, 1)

\* str::lines: the text is split at each "\n", a "\r" right before the "\n"
\* is removed with it, and text after the last "\n" is a last line
Lines(s) ==
    LET IsBreak(k) == s[k] = "\n"
        breaks == SelectSeq([k \in 1..Len(s) |-> k], IsBreak)
        n == Len(breaks)
        count == IF Len(s) > 0 /\ s[Len(s)] # "\n" THEN n + 1 ELSE n
        first(j) == IF j = 1 THEN 1 ELSE breaks[j - 1] + 1
        raw(j) == SubSeq(s, first(j), IF j <= n THEN breaks[j] - 1 ELSE Len(s))
        line(j) == IF j <= n /\ EndsWith(raw(j), <<"\r">>)
                   THEN SubSeq(raw(j), 1, Len(raw(j)) - 1) ELSE raw(j)
    IN  [j \in 1..count |-> line(j)]

\* concatenation of a sequence of strings
RECURSIVE Concat(_)
Concat(ss) == IF ss = <<>> THEN <<>> ELSE Head(ss) \o Concat(Tail(ss))

\* [String]::join
RECURSIVE Join(_, _)
Join(ss, sep) ==
    IF ss = <<>> THEN <<>>
    ELSE IF Len(ss) = 1 THEN ss[1]
    ELSE ss[1] \o sep \o Join(Tail(ss), sep)

----------------------------------------------------------------------------
(* The block model (struct Module, struct Function, enum Block).           *)

\* struct Module
Module(name, exposing) == [name |-> name, exposing |-> exposing]

\* struct Function
Function(lines) == [lines |-> lines]

\* Block::Module(m)
BlockModule(m) == [kind |-> "Module", name |-> m.name, exposing |-> m.exposing]

\* Block::Import(m)
BlockImport(m) == [kind |-> "Import", name |-> m.name, exposing |-> m.exposing]

\* Block::Init(f), Block::View(f), Block::Update(f), Block::Subscriptions(f),
\* Block::Page(f): kind is the variant's name
BlockFn(kind, f) == [kind |-> kind, lines |-> f.lines]

\* Block::Other(text)
BlockOther(t) == [kind |-> "Other", text |-> t]

FnKinds == {"Init", "Update", "View", "Subscriptions", "Page"}

----------------------------------------------------------------------------
(* The block scanner.  The Peekable line iterator is the pair of the line  *)
(* sequence and the index of the next line it will yield.                  *)

\* the loop of Module::parse that reads the rest of a multi-line exposing
\* list: every following line is consumed, its characters up to the first
\* ")" appended, until a line ends with ")" or the input ends
RECURSIVE ExposingRest(_, _, _)
ExposingRest(lines, i, exposing) ==
    IF i > Len(lines) THEN [exposing |-> exposing, next |-> i]
    ELSE LET e == exposing \o TakeUntil(lines[i], ")")
         IN  IF EndsWith(lines[i], <<")">>)
             THEN [exposing |-> e, next |-> i + 1]
             ELSE ExposingRest(lines, i + 1, e)

\* Module::parse(line, lines); i is the index of the next line of the iterator
Module_parse(line, lines, i) ==
    LET tokens == SplitWhitespace(line)
    IN  IF Len(tokens) < 2
        THEN [ok |-> FALSE, m |-> Module(<<>>, None), next |-> i]
        ELSE IF ~Contains(line, <<"e","x","p","o","s","i","n","g">>)
        THEN [ok |-> TRUE, m |-> Module(tokens[2], None), next |-> i]
        ELSE LET first == TakeUntil(SkipPast(line, "("), ")")
                 rest == IF ~EndsWith(line, <<")">>)
                         THEN ExposingRest(lines, i, first)
                         ELSE [exposing |-> first, next |-> i]
             IN  [ok |-> TRUE, m |-> Module(tokens[2], Some(rest.exposing)),
                  next |-> rest.next]

\* the condition of the while loop without the test for another clause
ContinuesIndented(line, name) ==
    \/ Trim(line) = <<>>
    \/ StartsWith(line, <<" ">>)
    \/ StartsWith(line, <<"\t">>)

\* the condition of the while loop of Function::parse on a peeked line
Continues(line, name) ==
    \/ Trim(line) = <<>>
    \/ StartsWith(line, <<" ">>)
    \/ StartsWith(line, <<"\t">>)
    \/ StartsWith(line, name \o <<" ">>)

\* the while loop of Function::parse: the index of the first line that does
\* not continue the function
RECURSIVE FunctionEnd(_, _, _)
FunctionEnd(lines, i, name) ==
    IF i <= Len(lines) /\ Continues(lines[i], name)
    THEN FunctionEnd(lines, i + 1, name)
    ELSE i

\* Function::parse(line, next_lines)
Function_parse(line, lines, i) ==
    LET tokens == SplitWhitespace(line)
    IN  IF Len(tokens) < 1
        THEN [ok |-> FALSE, f |-> Function(<<>>), next |-> i]
        ELSE LET e == FunctionEnd(lines, i, tokens[1])
             IN  [ok |-> TRUE, f |-> Function(<<line>> \o SubSeq(lines, i, e - 1)),
                  next |-> e]

\* the variant chosen by the if/else-if chain of Page::parse for a line
LineKind(line) ==
    IF StartsWith(line, <<"m","o","d","u","l","e"," ">>) THEN "Module"
    ELSE IF StartsWith(line, <<"i","m","p","o","r","t"," ">>) THEN "Import"
    ELSE IF StartsWith(line, <<"i","n","i","t"," ">>) THEN "Init"
    ELSE IF StartsWith(line, <<"u","p","d","a","t","e"," ">>) THEN "Update"
    ELSE IF StartsWith(line, <<"v","i","e","w"," ">>) THEN "View"
    ELSE IF StartsWith(line, <<"s","u","b","s","c","r","i","p","t","i","o","n","s"," ">>) THEN "Subscriptions"
    ELSE IF StartsWith(line, <<"p","a","g","e"," ">>) THEN "Page"
    ELSE "Other"

\* one iteration of the while loop of Page::parse: the block scanned at line
\* i and the index of the line the next iteration starts at
ScanBlock(lines, i) ==
    LET line == lines[i]
        kind == LineKind(line)
    IN  IF kind \in {"Module", "Import"}
        THEN LET r == Module_parse(line, lines, i + 1)
             IN  [ok |-> r.ok, next |-> r.next,
                  block |-> IF kind = "Module" THEN BlockModule(r.m)
                            ELSE BlockImport(r.m)]
        ELSE IF kind \in FnKinds
        THEN LET r == Function_parse(line, lines, i + 1)
             IN  [ok |-> r.ok, next |-> r.next, block |-> BlockFn(kind, r.f)]
        ELSE [ok |-> TRUE, next |-> i + 1, block |-> BlockOther(line)]

\* the while loop of Page::parse; an error of Module::parse or
\* Function::parse is returned at once (the ? operator)
RECURSIVE ScanFrom(_, _, _)
ScanFrom(lines, i, blocks) ==
    IF i > Len(lines) THEN [ok |-> TRUE, blocks |-> blocks]
    ELSE LET r == ScanBlock(lines, i)
         IN  IF ~r.ok THEN [ok |-> FALSE, blocks |-> <<>>]
             ELSE ScanFrom(lines, r.next, Append(blocks, r.block))

\* the lines of the text as they are, not right-trimmed
UntrimmedLines(t) == Lines(t)

\* text.lines().map(|l| l.trim_end().to_string())
TrimmedLines(t) == LET ls == Lines(t) IN [k \in 1..Len(ls) |-> TrimEnd(ls[k])]

\* Page::parse
Page_parse(t) == ScanFrom(TrimmedLines(t), 1, <<>>)

----------------------------------------------------------------------------
(* The template generator (impl PageType).  indoc! removes the first line  *)
(* break and the common indentation; format! fills the named holes.        *)

PageTypes == {"Static", "Sandbox", "Element", "Advanced"}

\* _fmt_defs with the argument names given whatever the toggles
FmtDefsArgsAlways(sh, rq) ==
    [s_sig |-> IF sh THEN <<"S","h","a","r","e","d",".","M","o","d","e","l"," ","-",">">> ELSE <<>>,
     s_arg |-> <<"s","h","a","r","e","d">>,
     r_sig |-> IF rq THEN <<"R","e","q","u","e","s","t",".","W","i","t","h"," ","P","a","r","a","m","s"," ","-",">">> ELSE <<>>,
     r_arg |-> <<"r","e","q">>]

\* _fmt_defs
FmtDefs(sh, rq) ==
    [s_sig |-> IF sh THEN <<"S","h","a","r","e","d",".","M","o","d","e","l"," ","-",">">> ELSE <<>>,
     s_arg |-> IF sh THEN <<"s","h","a","r","e","d">> ELSE <<>>,
     r_sig |-> IF rq THEN <<"R","e","q","u","e","s","t",".","W","i","t","h"," ","P","a","r","a","m","s"," ","-",">">> ELSE <<>>,
     r_arg |-> IF rq THEN <<"r","e","q">> ELSE <<>>]

\* PageType::exposing_template with the arm of Static lost
ExposingTemplateOneList(pt) == <<"p","a","g","e",","," ","M","o","d","e","l",","," ","M","s","g">>

\* PageType::exposing_template
ExposingTemplate(pt) ==
    IF pt = "Static" THEN <<"p","a","g","e">> ELSE <<"p","a","g","e",","," ","M","o","d","e","l",","," ","M","s","g">>

\* the line "<field> = <fn> {s_arg} {r_arg}\n" of a page template, after the
\* given record punctuation
WireLine(open, fn, d) ==
    Concat(<<<<" "," "," "," "," "," "," "," ">>, open, <<" ">>, fn, <<" ","="," ">>, fn, <<" ">>, d.s_arg, <<" ">>, d.r_arg, <<"\n">>>>)

\* PageType::page_template
PageTemplate(pt, sh, rq) ==
    LET d == FmtDefs(sh, rq)
    IN  IF pt = "Static"
        THEN Concat(<<<<"p","a","g","e"," ",":"," ","S","h","a","r","e","d",".","M","o","d","e","l"," ","-",">"," ","R","e","q","u","e","s","t",".","W","i","t","h"," ","P","a","r","a","m","s"," ","-",">"," ","P","a","g","e","\n">>,
                      <<"p","a","g","e"," ","s","h","a","r","e","d"," ","r","e","q"," ","=","\n">>,
                      <<" "," "," "," ","P","a","g","e",".","s","t","a","t","i","c","\n">>,
                      WireLine(<<"{">>, <<"v","i","e","w">>, d),
                      <<" "," "," "," "," "," "," "," ","}","\n">>>>)
        ELSE Concat(<<<<"p","a","g","e"," ",":"," ","S","h","a","r","e","d",".","M","o","d","e","l"," ","-",">"," ","R","e","q","u","e","s","t",".","W","i","t","h"," ","P","a","r","a","m","s"," ","-",">"," ","P","a","g","e",".","W","i","t","h"," ","M","o","d","e","l"," ","M","s","g","\n">>,
                      <<"p","a","g","e"," ","s","h","a","r","e","d"," ","r","e","q"," ","=","\n">>,
                      IF pt = "Sandbox" THEN <<" "," "," "," ","P","a","g","e",".","s","a","n","d","b","o","x","\n">>
                      ELSE IF pt = "Element" THEN <<" "," "," "," ","P","a","g","e",".","e","l","e","m","e","n","t","\n">>
                      ELSE <<" "," "," "," ","P","a","g","e",".","a","d","v","a","n","c","e","d","\n">>,
                      WireLine(<<"{">>, <<"i","n","i","t">>, d),
                      WireLine(<<",">>, <<"u","p","d","a","t","e">>, d),
                      WireLine(<<",">>, <<"v","i","e","w">>, d),
                      IF pt = "Sandbox" THEN <<>>
                      ELSE WireLine(<<",">>, <<"s","u","b","s","c","r","i","p","t","i","o","n","s">>, d),
                      <<" "," "," "," "," "," "," "," ","}","\n">>>>)

\* PageType::init_template
InitTemplate(pt, sh, rq) ==
    LET d == FmtDefs(sh, rq)
        head(result, value) ==
            Concat(<<<<"i","n","i","t"," ",":"," ">>, d.s_sig, <<" ">>, d.r_sig, <<" ">>, result, <<"\n">>,
                     <<"i","n","i","t"," ">>, d.s_arg, <<" ">>, d.r_arg, <<" ","=","\n">>,
                     <<" "," "," "," ">>, value, <<"\n">>>>)
    IN  IF pt = "Static" THEN <<>>
        ELSE IF pt = "Sandbox" THEN head(<<"M","o","d","e","l">>, <<"{","}">>)
        ELSE IF pt = "Element" THEN head(<<"(","M","o","d","e","l",","," ","C","m","d"," ","M","s","g",")">>, <<"(","{","}",","," ","C","m","d",".","n","o","n","e",")">>)
        ELSE head(<<"(","M","o","d","e","l",","," ","E","f","f","e","c","t"," ","M","s","g",")">>, <<"(","{","}",","," ","E","f","f","e","c","t",".","n","o","n","e",")">>)

\* PageType::update_template
UpdateTemplate(pt, sh, rq) ==
    LET d == FmtDefs(sh, rq)
        head(result, value) ==
            Concat(<<<<"u","p","d","a","t","e"," ",":"," ">>, d.s_sig, <<" ">>, d.r_sig, <<" ","M","s","g"," ","-",">"," ","M","o","d","e","l"," ","-",">"," ">>, result, <<"\n">>,
                     <<"u","p","d","a","t","e"," ">>, d.s_arg, <<" ">>, d.r_arg, <<" ","m","s","g"," ","m","o","d","e","l"," ","=","\n">>,
                     <<" "," "," "," ","c","a","s","e"," ","m","s","g"," ","o","f","\n">>,
                     <<" "," "," "," "," "," "," "," ","_"," ","-",">","\n">>,
                     <<" "," "," "," "," "," "," "," "," "," "," "," ">>, value, <<"\n">>>>)
    IN  IF pt = "Static" THEN <<>>
        ELSE IF pt = "Sandbox" THEN head(<<"M","o","d","e","l">>, <<"m","o","d","e","l">>)
        ELSE IF pt = "Element" THEN head(<<"("," ","M","o","d","e","l",","," ","C","m","d"," ","M","s","g"," ",")">>, <<"("," ","m","o","d","e","l",","," ","C","m","d",".","n","o","n","e"," ",")">>)
        ELSE head(<<"("," ","M","o","d","e","l",","," ","E","f","f","e","c","t"," ","M","s","g"," ",")">>, <<"("," ","m","o","d","e","l",","," ","E","f","f","e","c","t",".","n","o","n","e"," ",")">>)

\* PageType::view_template
ViewTemplate(pt, sh, rq) ==
    LET d == FmtDefs(sh, rq)
    IN  IF pt = "Static"
        THEN Concat(<<<<"v","i","e","w"," ",":"," ">>, d.s_sig, <<" ">>, d.r_sig, <<" ","V","i","e","w"," ","m","s","g","\n">>,
                      <<"v","i","e","w"," ">>, d.s_arg, <<" ">>, d.r_arg, <<" ","=","\n">>,
                      <<" "," "," "," ","V","i","e","w",".","p","l","a","c","e","h","o","l","d","e","r"," ","\"","H","e","l","l","o"," ","W","o","r","l","d","\"","\n">>>>)
        ELSE Concat(<<<<"v","i","e","w"," ",":"," ">>, d.s_sig, <<" ">>, d.r_sig, <<" ","M","o","d","e","l"," ","-",">"," ","V","i","e","w"," ","M","s","g","\n">>,
                      <<"v","i","e","w"," ">>, d.s_arg, <<" ">>, d.r_arg, <<" ","m","o","d","e","l"," ","=","\n">>,
                      <<" "," "," "," ","V","i","e","w",".","p","l","a","c","e","h","o","l","d","e","r"," ","\"","H","e","l","l","o"," ","W","o","r","l","d","\"","\n">>>>)

\* PageType::subscriptions_template
SubscriptionsTemplate(pt, sh, rq) ==
    LET d == FmtDefs(sh, rq)
    IN  IF pt \in {"Static", "Sandbox"} THEN <<>>
        ELSE Concat(<<<<"s","u","b","s","c","r","i","p","t","i","o","n","s"," ",":"," ">>, d.s_sig, <<" ">>, d.r_sig, <<" ","M","o","d","e","l"," ","-",">"," ","S","u","b"," ","M","s","g","\n">>,
                      <<"s","u","b","s","c","r","i","p","t","i","o","n","s"," ">>, d.s_arg, <<" ">>, d.r_arg, <<" ","m","o","d","e","l"," ","=","\n">>,
                      <<" "," "," "," ","S","u","b",".","n","o","n","e","\n">>>>)

\* the template of a function kind: the *_template method each arm of
\* Page::to calls
Template(kind, pt, sh, rq) ==
    IF kind = "Init" THEN InitTemplate(pt, sh, rq)
    ELSE IF kind = "Update" THEN UpdateTemplate(pt, sh, rq)
    ELSE IF kind = "View" THEN ViewTemplate(pt, sh, rq)
    ELSE IF kind = "Subscriptions" THEN SubscriptionsTemplate(pt, sh, rq)
    ELSE PageTemplate(pt, sh, rq)

----------------------------------------------------------------------------
(* The transformation engine (Page::to).                                   *)

\* blocks.iter().any(|b| matches!(b, Block::<kind>(..)))
HasKind(blocks, kind) == \E k \in 1..Len(blocks) : blocks[k].kind = kind

\* blocks.iter().any(|b| match b { Block::Import(m) => m.name == name, .. })
HasImport(blocks, name) ==
    \E k \in 1..Len(blocks) : blocks[k].kind = "Import" /\ blocks[k].name = name

\* iter_mut().find_map(..): the index of the first import called name, 0 when
\* there is none
FindImport(blocks, name) ==
    IF HasImport(blocks, name)
    THEN CHOOSE k \in 1..Len(blocks) :
            /\ blocks[k].kind = "Import" /\ blocks[k].name = name
            /\ \A j \in 1..(k - 1) : ~(blocks[j].kind = "Import" /\ blocks[j].name = name)
    ELSE 0

\* Some(exposing.as_ref().map(|e| format!("<word>, {}", e))
\*          .unwrap_or_else(|| "<word>".into()))
MergeExposing(exposing, word) ==
    IF exposing = None THEN Some(word) ELSE Some(word \o <<","," ">> \o exposing[1])

\* the injected import of Shared without the test for an existing one
SharedImportUnchecked(self, sh) ==
    IF sh THEN <<BlockImport(Module(<<"S","h","a","r","e","d">>, None))>> ELSE <<>>

\* the injected import of Shared (lines 435-445)
SharedImport(self, sh) ==
    IF sh /\ ~HasImport(self, <<"S","h","a","r","e","d">>)
    THEN <<BlockImport(Module(<<"S","h","a","r","e","d">>, None))>> ELSE <<>>

\* the injected import of Request (lines 447-457)
RequestImport(self, rq) ==
    IF rq /\ ~HasImport(self, <<"R","e","q","u","e","s","t">>)
    THEN <<BlockImport(Module(<<"R","e","q","u","e","s","t">>, Some(<<"R","e","q","u","e","s","t">>)))>> ELSE <<>>

\* the import of Page when the input has none (lines 475-480)
PageImport(self) ==
    IF FindImport(self, <<"P","a","g","e">>) = 0
    THEN <<BlockImport(Module(<<"P","a","g","e">>, Some(<<"P","a","g","e">>)))>> ELSE <<>>

\* the input blocks after the merge into an existing import of Page
\* (lines 459-474)
MergePageImport(self) ==
    LET k == FindImport(self, <<"P","a","g","e">>)
    IN  IF k = 0 THEN self
        ELSE [self EXCEPT ![k].exposing = MergeExposing(@, <<"P","a","g","e">>)]

\* the injected import of Effect (lines 482-492)
EffectImport(self, pt) ==
    IF pt = "Advanced" /\ ~HasImport(self, <<"E","f","f","e","c","t">>)
    THEN <<BlockImport(Module(<<"E","f","f","e","c","t">>, Some(<<"E","f","f","e","c","t">>)))>> ELSE <<>>

\* format!("Gen.Params.{}", b.name.trim_start_matches("Pages."))
ParamsModule(name) == <<"G","e","n",".","P","a","r","a","m","s",".">> \o TrimStartMatches(name, <<"P","a","g","e","s",".">>)

\* the arm Block::Module with the module pushed instead of inserted at 0
ModuleArmPushing(blocks, b, pt) ==
    LET k == FindImport(blocks, ParamsModule(b.name))
        merged == IF k # 0
                  THEN [blocks EXCEPT ![k].exposing = MergeExposing(@, <<"P","a","r","a","m","s">>)]
                  ELSE Append(blocks, BlockImport(Module(ParamsModule(b.name),
                                                         Some(<<"P","a","r","a","m","s">>))))
    IN  Append(merged, BlockModule(Module(b.name, Some(ExposingTemplate(pt)))))

\* the arm Block::Module of the loop: the params import is merged into an
\* import already in the output, or pushed; the module goes to index 0
ModuleArm(blocks, b, pt) ==
    LET k == FindImport(blocks, ParamsModule(b.name))
        merged == IF k # 0
                  THEN [blocks EXCEPT ![k].exposing = MergeExposing(@, <<"P","a","r","a","m","s">>)]
                  ELSE Append(blocks, BlockImport(Module(ParamsModule(b.name),
                                                         Some(<<"P","a","r","a","m","s">>))))
    IN  <<BlockModule(Module(b.name, Some(ExposingTemplate(pt))))>> \o merged

\* the original lines joined without the comment marker
CommentOutUnmarked(lines) == Join(lines, <<"\n">>)

\* b.lines.iter().map(|l| format!("-- {}", l)).collect::<Vec<String>>().join("\n")
CommentOut(lines) == Join([k \in 1..Len(lines) |-> <<"-","-"," ">> \o lines[k]], <<"\n">>)

\* the arms Block::Init, Update, View, Subscriptions and Page of the loop:
\* the replacement block of the same kind, then the commented-out original
FunctionArm(blocks, b, pt, sh, rq) ==
    blocks \o <<BlockFn(b.kind, Function(Lines(Template(b.kind, pt, sh, rq)))),
                BlockOther(CommentOut(b.lines))>>

\* the body of the loop with a last arm that pushes imports only
ArmDroppingOther(blocks, b, pt, sh, rq) ==
    IF b.kind = "Module" THEN ModuleArm(blocks, b, pt)
    ELSE IF b.kind \in FnKinds THEN FunctionArm(blocks, b, pt, sh, rq)
    ELSE IF b.kind = "Import" THEN Append(blocks, b)
    ELSE blocks

\* the body of the loop over self.blocks
Arm(blocks, b, pt, sh, rq) ==
    IF b.kind = "Module" THEN ModuleArm(blocks, b, pt)
    ELSE IF b.kind \in FnKinds THEN FunctionArm(blocks, b, pt, sh, rq)
    ELSE Append(blocks, b)

\* for block in self.blocks.into_iter()
RECURSIVE ToLoop(_, _, _, _, _, _)
ToLoop(self, i, blocks, pt, sh, rq) ==
    IF i > Len(self) THEN blocks
    ELSE ToLoop(self, i + 1, Arm(blocks, self[i], pt, sh, rq), pt, sh, rq)

\* the back-fill pushed as a block of the kind instead of Block::Other
BackfillFnOfKind(blocks, kind, pt, sh, rq) ==
    IF ~HasKind(blocks, kind)
    THEN Append(blocks, BlockFn(kind, Function(Lines(Template(kind, pt, sh, rq)))))
    ELSE blocks

\* the Other block pushed when no block of the kind exists (lines 621-623,
\* 640-659)
BackfillFn(blocks, kind, pt, sh, rq) ==
    IF ~HasKind(blocks, kind)
    THEN Append(blocks, BlockOther(Template(kind, pt, sh, rq)))
    ELSE blocks

\* the default Model alias (lines 626-631)
BackfillModel(blocks) ==
    IF ~\E k \in 1..Len(blocks) :
           /\ blocks[k].kind = "Other"
           /\ StartsWith(blocks[k].text, <<"t","y","p","e"," ","a","l","i","a","s"," ","M","o","d","e","l"," ","=">>)
    THEN Append(blocks, BlockOther(<<"\n","t","y","p","e"," ","a","l","i","a","s"," ","M","o","d","e","l"," ","="," ","{","}","\n","\n">>))
    ELSE blocks

\* the default Msg type (lines 633-638)
BackfillMsg(blocks) ==
    IF ~\E k \in 1..Len(blocks) :
           /\ blocks[k].kind = "Other"
           /\ \/ StartsWith(blocks[k].text, <<"t","y","p","e"," ","M","s","g"," ">>)
              \/ Trim(blocks[k].text) = <<"t","y","p","e"," ","M","s","g">>
    THEN Append(blocks, BlockOther(<<"\n","t","y","p","e"," ","M","s","g"," ","="," ","R","e","p","l","a","c","e","M","e","\n","\n">>))
    ELSE blocks

\* the blocks pushed after the loop (lines 621-659)
Backfill(blocks, pt, sh, rq) ==
    LET b1 == BackfillFn(blocks, "Page", pt, sh, rq)
        b2 == IF pt # "Static" THEN BackfillMsg(BackfillModel(b1)) ELSE b1
        b3 == IF pt # "Static" /\ pt # "Sandbox"
              THEN BackfillFn(b2, "Subscriptions", pt, sh, rq) ELSE b2
        b4 == IF pt # "Static"
              THEN BackfillFn(BackfillFn(b3, "Init", pt, sh, rq), "Update", pt, sh, rq)
              ELSE b3
    IN  BackfillFn(b4, "View", pt, sh, rq)

\* the output blocks before the loop (lines 433-492)
InjectedImports(self, pt, sh, rq) ==
    SharedImport(self, sh) \o RequestImport(self, rq) \o PageImport(self)
        \o EffectImport(self, pt)

\* Page::to
Page_to(self, pt, sh, rq) ==
    Backfill(ToLoop(MergePageImport(self), 1, InjectedImports(self, pt, sh, rq),
                    pt, sh, rq),
             pt, sh, rq)

----------------------------------------------------------------------------
(* The renderer (Display for Block and for Page).                          *)

\* Display for Block
Block_fmt(b) ==
    IF b.kind \in {"Module", "Import"}
    THEN (IF b.kind = "Module" THEN <<"m","o","d","u","l","e"," ">> ELSE <<"i","m","p","o","r","t"," ">>) \o b.name
         \o (IF b.exposing = None THEN <<>>
             ELSE <<" ","e","x","p","o","s","i","n","g"," ","(">> \o b.exposing[1] \o <<")">>)
         \o <<"\n">>
    ELSE IF b.kind \in FnKinds
    THEN <<"\n">> \o Concat([k \in 1..Len(b.lines) |-> b.lines[k] \o <<"\n">>]) \o <<"\n">>
    ELSE b.text \o <<"\n">>

\* Display for Page
Page_fmt(blocks) == Concat([k \in 1..Len(blocks) |-> Block_fmt(blocks[k])])

----------------------------------------------------------------------------
(* The inputs: source files of at most MaxLines lines, all taken from one  *)
(* family of sample lines, and the command line (template, -s, -r).        *)

\* function definitions with clauses and continuation lines, blank and
\* opaque lines
FunctionLines ==
    {<<"i","n","i","t"," ","=">>, <<"u","p","d","a","t","e"," ","a"," ","=">>, <<"u","p","d","a","t","e"," ","b"," ","=">>, <<" "," ","y">>, <<>>, <<"z"," ","="," ","1">>}

\* module headers with and without an exposing list, import declarations
ImportLines ==
    {<<"m","o","d","u","l","e"," ","P","a","g","e","s",".","A">>, <<"m","o","d","u","l","e"," ","P","a","g","e","s",".","A"," ","e","x","p","o","s","i","n","g"," ","(","x",")">>, <<"i","m","p","o","r","t"," ","P","a","g","e"," ","e","x","p","o","s","i","n","g"," ","(","P","a","g","e",")">>,
     <<"i","m","p","o","r","t"," ","H","t","m","l"," ","a","s"," ","H">>, <<"i","m","p","o","r","t"," ","G","e","n",".","P","a","r","a","m","s",".","A">>, <<"i","m","p","o","r","t"," ","B"," ","e","x","p","o","s","i","n","g"," ","(","a">>}

\* exposing lists with a nested list and over two lines, keyword lines that
\* end in whitespace
EdgeLines ==
    {<<"i","m","p","o","r","t"," ","B"," ","e","x","p","o","s","i","n","g"," ","(","C","(",".",".",")",")">>, <<"i","m","p","o","r","t"," ","B"," ","e","x","p","o","s","i","n","g"," ","(","a">>, <<" "," ",","," ","b",")">>, <<"m","o","d","u","l","e"," ","\f">>,
     <<"p","a","g","e"," ","\t","U+3000">>}

Families == {FunctionLines, ImportLines, EdgeLines}

\* the sequences of at most n lines of a family
RECURSIVE SeqsUpTo(_, _)
SeqsUpTo(S, n) ==
    IF n = 0 THEN {<<>>}
    ELSE LET shorter == SeqsUpTo(S, n - 1)
         IN  shorter \cup {Append(s, x) : s \in shorter, x \in S}

\* a file: every line ended by a line break
FileOf(lines) == Concat([k \in 1..Len(lines) |-> lines[k] \o <<"\n">>])

Texts == {FileOf(ls) : ls \in UNION {SeqsUpTo(F, MaxLines) : F \in Families}}

----------------------------------------------------------------------------
(* The run of main: read, parse, transform, write.                         *)

Init ==
    /\ text \in Texts
    /\ pagetype \in PageTypes
    /\ shared \in BOOLEAN
    /\ request \in BOOLEAN
    /\ pc = "read"
    /\ page = <<>>
    /\ written = <<>>

\* Page::parse(&text)?
Parse ==
    /\ pc = "read"
    /\ LET r == Page_parse(text)
       IN  /\ page' = r.blocks
           /\ pc' = IF r.ok THEN "parsed" ELSE "failed"
    /\ UNCHANGED <<text, pagetype, shared, request, written>>

\* .to(template, cli.shared, cli.request), on a parsed Page or again on a
\* transformed one
To ==
    /\ pc \in {"parsed", "transformed"}
    /\ page' = Page_to(page, pagetype, shared, request)
    /\ pc' = IF pc = "parsed" THEN "transformed" ELSE "retransformed"
    /\ UNCHANGED <<text, pagetype, shared, request, written>>

\* writeln!(file, "{}", page) and println!("{}", page)
Write ==
    /\ pc = "transformed"
    /\ written' = Page_fmt(page) \o <<"\n">>
    /\ pc' = "written"
    /\ UNCHANGED <<text, pagetype, shared, request, page>>

Next == Parse \/ To \/ Write

Spec == Init /\ [][Next]_vars

----------------------------------------------------------------------------
(* Vocabulary of the properties.                                           *)

\* the Page the scanner produced for the input file
Original == Page_parse(text).blocks

\* the number of blocks of a kind
CountKind(blocks, kind) == Cardinality({k \in 1..Len(blocks) : blocks[k].kind = kind})

\* the number of imports of a module
CountImport(blocks, name) ==
    Cardinality({k \in 1..Len(blocks) :
                    blocks[k].kind = "Import" /\ blocks[k].name = name})

IsFn(b) == b.kind \in FnKinds

IsOther(b) == b.kind = "Other"

\* t is the lines ls, each behind the comment marker, and nothing else
IsCommentedCopy(t, ls) ==
    /\ ~EndsWith(t, <<"\n">>)
    /\ Lines(t) = [k \in 1..Len(ls) |-> <<"-","-"," ">> \o ls[k]]

\* the least index j >= from at which out holds a block of the kind of f
\* directly followed by the commented copy of f, 0 when there is none
RECURSIVE PairAt(_, _, _)
PairAt(out, from, f) ==
    IF from + 1 > Len(out) THEN 0
    ELSE IF /\ out[from].kind = f.kind
            /\ IsOther(out[from + 1])
            /\ IsCommentedCopy(out[from + 1].text, f.lines)
    THEN from
    ELSE PairAt(out, from + 1, f)

\* every function block of fs, in order, has its pair in out at or after from
RECURSIVE PairsInOrder(_, _, _, _)
PairsInOrder(fs, k, out, from) ==
    IF k > Len(fs) THEN TRUE
    ELSE LET j == PairAt(out, from, fs[k])
         IN  j # 0 /\ PairsInOrder(fs, k + 1, out, j + 2)

\* the texts of the Other blocks, in order
OtherTexts(blocks) ==
    LET os == SelectSeq(blocks, IsOther) IN [k \in 1..Len(os) |-> os[k].text]

\* the blocks of the input that account for an Other block of the output:
\* its Other blocks (carried over) and its function blocks (commented out)
IsCarried(b) == IsOther(b) \/ IsFn(b)

Carried(blocks) == SelectSeq(blocks, IsCarried)

\* the texts Page::to appends on its own
GeneratedTexts(pt, sh, rq) ==
    {Template(kind, pt, sh, rq) : kind \in FnKinds}
        \cup {<<"\n","t","y","p","e"," ","a","l","i","a","s"," ","M","o","d","e","l"," ","="," ","{","}","\n","\n">>, <<"\n","t","y","p","e"," ","M","s","g"," ","="," ","R","e","p","l","a","c","e","M","e","\n","\n">>}

AfterTo == pc = "transformed"

----------------------------------------------------------------------------
(* C1: no user code is lost.  After the transformation every function      *)
(* block of the input has, in the output, a block of its kind directly     *)
(* followed by an Other block that is exactly its lines, each behind       *)
(* "-- ", in their order; and these pairs come in the order of the input.  *)
NoUserCodeLoss ==
    AfterTo => PairsInOrder(SelectSeq(Original, IsFn), 1, page, 1)

\* two function blocks of different kinds, one of several lines, replaced
NoUserCodeLossWitness ==
    /\ AfterTo
    /\ \E i, j \in 1..Len(Original) :
          /\ i < j /\ IsFn(Original[i]) /\ IsFn(Original[j])
          /\ Original[i].kind # Original[j].kind
          /\ Len(Original[i].lines) > 1
    /\ CountKind(page, "Init") = 1

----------------------------------------------------------------------------
(* C2: every import of the input that the transformation does not merge    *)
(* into (its name is neither Page nor the params module) stands in the     *)
(* written output exactly as in the input: the same lines, so the same     *)
(* module name, alias and exposed names.                                   *)

\* the declarations of the input: the block scanned at each line the loop
\* of Page::parse starts an iteration at, with the lines it took
RECURSIVE Spans(_, _)
Spans(lines, i) ==
    IF i > Len(lines) THEN <<>>
    ELSE LET r == ScanBlock(lines, i)
         IN  <<[block |-> r.block, source |-> SubSeq(lines, i, r.next - 1)]>>
                 \o Spans(lines, r.next)

\* the lines ls stand in the lines out, one after the other
Occurs(ls, out) ==
    \E k \in 0..(Len(out) - Len(ls)) : SubSeq(out, k + 1, k + Len(ls)) = ls

MergedNames ==
    {<<"P","a","g","e">>} \cup {ParamsModule(Original[k].name) :
                     k \in {j \in 1..Len(Original) : Original[j].kind = "Module"}}

ImportsVerbatim ==
    pc = "written" =>
        LET spans == Spans(TrimmedLines(text), 1)
        IN  \A k \in 1..Len(spans) :
                (spans[k].block.kind = "Import" /\ spans[k].block.name \notin MergedNames)
                    => Occurs(spans[k].source, Lines(written))

----------------------------------------------------------------------------
(* C3: the Other blocks of the input are carried through.  The Other       *)
(* blocks of the output are, in order: one for each Other or function      *)
(* block of the input - for an Other block of the input its own text,      *)
(* unchanged - and then only texts the transformation generates.           *)
OtherBlocksCarried ==
    AfterTo =>
        LET in == Carried(Original)
            out == OtherTexts(page)
        IN  /\ Len(out) >= Len(in)
            /\ \A k \in 1..Len(in) : IsOther(in[k]) => out[k] = in[k].text
            /\ \A k \in (Len(in) + 1)..Len(out) :
                   out[k] \in GeneratedTexts(pagetype, shared, request)

\* two different Other blocks around a function block
OtherBlocksCarriedWitness ==
    /\ AfterTo
    /\ \E i, j \in 1..Len(Original) :
          /\ i + 1 < j /\ IsOther(Original[i]) /\ IsOther(Original[j])
          /\ Original[i].text # Original[j].text
          /\ IsFn(Original[i + 1])
    /\ Len(OtherTexts(page)) > Len(Carried(Original))

----------------------------------------------------------------------------
(* C4: exactly one ModuleDecl per Page.  As claimed: the parsed Page has   *)
(* exactly one ModuleDecl, and the transformed Page has exactly one, at    *)
(* index 0.                                                                *)
ExactlyOneModuleDecl ==
    /\ pc = "parsed" => CountKind(page, "Module") = 1
    /\ AfterTo => CountKind(page, "Module") = 1 /\ page[1].kind = "Module"

\* no declaration of the input leaves its exposing list open
NoOpenExposing ==
    \A k \in 1..Len(TrimmedLines(text)) :
        LET l == TrimmedLines(text)[k]
        IN  (LineKind(l) \in {"Module", "Import"} /\ Contains(l, <<"e","x","p","o","s","i","n","g">>))
                => EndsWith(l, <<")">>)

ModuleLines ==
    {k \in 1..Len(TrimmedLines(text)) : StartsWith(TrimmedLines(text)[k], <<"m","o","d","u","l","e"," ">>)}

(* C4 as amended: the parsed Page has one ModuleDecl for each line that    *)
(* starts with "module " (none, one or several) when no declaration leaves *)
(* its exposing list open; the transformation keeps the number of          *)
(* ModuleDecl blocks, and when there is one it is at index 0.              *)
ModuleDeclPerModuleLine ==
    /\ (pc = "parsed" /\ NoOpenExposing)
           => CountKind(page, "Module") = Cardinality(ModuleLines)
    /\ AfterTo =>
           /\ CountKind(page, "Module") = CountKind(Original, "Module")
           /\ CountKind(page, "Module") >= 1 => page[1].kind = "Module"

\* a single module line that is not the first block is moved to index 0
ModuleDeclPerModuleLineWitness ==
    /\ AfterTo
    /\ CountKind(Original, "Module") = 1
    /\ Original[1].kind # "Module"
    /\ page[1].kind = "Module"
    /\ CountKind(page, "Module") = 1

----------------------------------------------------------------------------
(* C5: exposing correctness.  After the transformation the exposing list   *)
(* of the module block is the list of the archetype: page for Static,      *)
(* page, Model, Msg for the others, whatever the input exposed.            *)
ArchetypeExposing ==
    IF pagetype = "Static" THEN <<"p","a","g","e">> ELSE <<"p","a","g","e",","," ","M","o","d","e","l",","," ","M","s","g">>

ExposingCorrect ==
    AfterTo =>
        \A k \in 1..Len(page) :
            page[k].kind = "Module" => page[k].exposing = Some(ArchetypeExposing)

\* a module line without an exposing list is given the list of Static
ExposingCorrectWitness ==
    /\ AfterTo
    /\ pagetype = "Static"
    /\ \E k \in 1..Len(Original) :
          Original[k].kind = "Module" /\ Original[k].exposing = None
    /\ page[1].kind = "Module"
    /\ page[1].exposing = Some(<<"p","a","g","e">>)

----------------------------------------------------------------------------
(* C6: toggle-driven signature.  As claimed: for every archetype and each  *)
(* of the five kinds the generated text has the shared-model parameter     *)
(* (the type Shared.Model -> and the argument shared) exactly when -s is   *)
(* given, and the request parameter (Request.With Params -> and req)       *)
(* exactly when -r is given.                                               *)
HasSharedParam(t) == Contains(t, <<"S","h","a","r","e","d",".","M","o","d","e","l"," ","-",">">>) /\ Contains(t, <<"s","h","a","r","e","d">>)

HasRequestParam(t) == Contains(t, <<"R","e","q","u","e","s","t",".","W","i","t","h"," ","P","a","r","a","m","s"," ","-",">">>) /\ Contains(t, <<"r","e","q">>)

ToggleDrivenSignature ==
    AfterTo =>
        \A kind \in FnKinds :
            LET t == Template(kind, pagetype, shared, request)
            IN  /\ HasSharedParam(t) <=> shared
                /\ HasRequestParam(t) <=> request

\* the kinds an archetype has no text for
EmptyKinds(pt) ==
    IF pt = "Static" THEN {"Init", "Update", "Subscriptions"}
    ELSE IF pt = "Sandbox" THEN {"Subscriptions"}
    ELSE {}

\* the lines of a page template behind its two signature lines
Wiring(t) == Join(SubSeq(Lines(t), 3, Len(Lines(t))), <<"\n">>)

(* C6 as amended: the text of init, update, view and subscriptions, where  *)
(* the archetype has one (Static has none for init, update, subscriptions, *)
(* Sandbox none for subscriptions), has the type Shared.Model -> and the   *)
(* argument shared exactly when -s is given, and Request.With Params ->    *)
(* and req exactly when -r is given.  The text of page always starts with  *)
(* page : Shared.Model -> Request.With Params -> and page shared req =;    *)
(* the functions it wires get shared exactly when -s is given and req      *)
(* exactly when -r is given.                                               *)
ToggleDrivenSignatureAmended ==
    AfterTo =>
        /\ \A kind \in FnKinds \ {"Page"} :
               LET t == Template(kind, pagetype, shared, request)
               IN  /\ t = <<>> <=> kind \in EmptyKinds(pagetype)
                   /\ t # <<>> =>
                          /\ Contains(t, <<"S","h","a","r","e","d",".","M","o","d","e","l"," ","-",">">>) <=> shared
                          /\ Contains(t, <<"s","h","a","r","e","d">>) <=> shared
                          /\ Contains(t, <<"R","e","q","u","e","s","t",".","W","i","t","h"," ","P","a","r","a","m","s"," ","-",">">>) <=> request
                          /\ Contains(t, <<"r","e","q">>) <=> request
        /\ LET t == Template("Page", pagetype, shared, request)
           IN  /\ StartsWith(Lines(t)[1], <<"p","a","g","e"," ",":"," ","S","h","a","r","e","d",".","M","o","d","e","l"," ","-",">"," ","R","e","q","u","e","s","t",".","W","i","t","h"," ","P","a","r","a","m","s"," ","-",">"," ">>)
               /\ Lines(t)[2] = <<"p","a","g","e"," ","s","h","a","r","e","d"," ","r","e","q"," ","=">>
               /\ Contains(Wiring(t), <<"s","h","a","r","e","d">>) <=> shared
               /\ Contains(Wiring(t), <<"r","e","q">>) <=> request

\* an update function replaced by the text for -s without -r
ToggleDrivenSignatureWitness ==
    /\ AfterTo
    /\ shared /\ ~request
    /\ \E k \in 1..Len(page) :
          /\ page[k].kind = "Update"
          /\ Len(page[k].lines) > 1
          /\ Contains(page[k].lines[1], <<"S","h","a","r","e","d",".","M","o","d","e","l"," ","-",">">>)
          /\ ~Contains(page[k].lines[1], <<"R","e","q","u","e","s","t",".","W","i","t","h"," ","P","a","r","a","m","s"," ","-",">">>)
          /\ Contains(page[k].lines[2], <<"s","h","a","r","e","d">>)

----------------------------------------------------------------------------
(* C7: archetype completeness.  As claimed: after the transformation with  *)
(* Static the output has no init, update or subscriptions block, with      *)
(* Sandbox no subscriptions block, and with Element or Advanced a block of *)
(* each of the five function kinds.                                        *)
ArchetypeCompleteness ==
    AfterTo =>
        /\ pagetype = "Static" =>
               \A kind \in {"Init", "Update", "Subscriptions"} : ~HasKind(page, kind)
        /\ pagetype = "Sandbox" => ~HasKind(page, "Subscriptions")
        /\ pagetype \in {"Element", "Advanced"} =>
               \A kind \in FnKinds : HasKind(page, kind)

\* the keyword of a function kind
Keyword(kind) ==
    IF kind = "Init" THEN <<"i","n","i","t">>
    ELSE IF kind = "Update" THEN <<"u","p","d","a","t","e">>
    ELSE IF kind = "View" THEN <<"v","i","e","w">>
    ELSE IF kind = "Subscriptions" THEN <<"s","u","b","s","c","r","i","p","t","i","o","n","s">>
    ELSE <<"p","a","g","e">>

\* the Other blocks of the output behind those the input accounts for
AppendedTexts(in, out) ==
    SubSeq(OtherTexts(out), Len(Carried(in)) + 1, Len(OtherTexts(out)))

\* the number of Other blocks among the texts that define a function of the
\* kind
Defining(texts, kind) ==
    Cardinality({k \in 1..Len(texts) : StartsWith(texts[k], Keyword(kind) \o <<" ",":">>)})

(* C7 as amended: for a kind the archetype has no text for (init, update   *)
(* and subscriptions with Static, subscriptions with Sandbox) the output   *)
(* has only the empty replacements - blocks of the kind without lines - of *)
(* the function blocks of the input, and nothing is appended for it.  For  *)
(* every other kind the output has the generated definition: in a          *)
(* replacement block of the kind for each function block of the input, or, *)
(* when the input has none, in exactly one appended Other block.           *)
ArchetypeCompletenessAmended ==
    AfterTo =>
        LET in == Original
            appended == AppendedTexts(in, page)
        IN  /\ \A k \in 1..Len(appended) : appended[k] # <<>>
            /\ \A kind \in FnKinds :
                   /\ CountKind(page, kind) = CountKind(in, kind)
                   /\ \A k \in 1..Len(page) :
                          page[k].kind = kind =>
                              IF kind \in EmptyKinds(pagetype)
                              THEN page[k].lines = <<>>
                              ELSE /\ page[k].lines # <<>>
                                   /\ StartsWith(page[k].lines[1], Keyword(kind) \o <<" ",":">>)
                   /\ Defining(appended, kind) =
                          IF kind \in EmptyKinds(pagetype) \/ HasKind(in, kind)
                          THEN 0 ELSE 1

\* Element: an update function is replaced, init is appended as Other
ArchetypeCompletenessWitness ==
    /\ AfterTo
    /\ pagetype = "Element"
    /\ HasKind(Original, "Update")
    /\ ~HasKind(Original, "Init")
    /\ ~HasKind(page, "Init")
    /\ Defining(AppendedTexts(Original, page), "Init") = 1

----------------------------------------------------------------------------
(* C8: import idempotent presence.  When the input has at most one import  *)
(* each of Shared, Request, Page and Effect, the Page transformed twice    *)
(* with the same archetype and toggles has at most one of each.            *)
InjectedNames == {<<"S","h","a","r","e","d">>, <<"R","e","q","u","e","s","t">>, <<"P","a","g","e">>, <<"E","f","f","e","c","t">>}

AtMostOneEach(blocks) == \A name \in InjectedNames : CountImport(blocks, name) <= 1

ImportIdempotentPresence ==
    (pc = "retransformed" /\ AtMostOneEach(Original)) => AtMostOneEach(page)

\* Shared was injected by the first transformation, Page was in the input
ImportIdempotentPresenceWitness ==
    /\ pc = "retransformed"
    /\ shared
    /\ CountImport(Original, <<"S","h","a","r","e","d">>) = 0
    /\ CountImport(Original, <<"P","a","g","e">>) = 1
    /\ CountImport(page, <<"S","h","a","r","e","d">>) = 1
    /\ CountImport(page, <<"P","a","g","e">>) = 1

----------------------------------------------------------------------------
(* C9: round trip.  For a parsed Page made only of module, import and      *)
(* function blocks, rendering it, parsing the text and rendering again     *)
(* gives the same text.                                                    *)
RoundTrip ==
    (pc = "parsed" /\ \A k \in 1..Len(page) : ~IsOther(page[k])) =>
        Page_fmt(Page_parse(Page_fmt(page)).blocks) = Page_fmt(page)

----------------------------------------------------------------------------
(* C10: the merge into an import of Page does not duplicate the name.      *)
(* After the transformation an import of Page of the input whose exposing  *)
(* list starts with Page keeps its list; any other gets "Page, " in front. *)
PageMergeNoDuplicate ==
    AfterTo =>
        LET k == FindImport(Original, <<"P","a","g","e">>)
            j == FindImport(page, <<"P","a","g","e">>)
        IN  (k # 0 /\ Original[k].exposing # None) =>
                /\ j # 0
                /\ page[j].exposing =
                       IF StartsWith(Original[k].exposing[1], <<"P","a","g","e">>)
                       THEN Original[k].exposing
                       ELSE Some(<<"P","a","g","e",","," ">> \o Original[k].exposing[1])

----------------------------------------------------------------------------
(* C11: the params import is merged.  For a Page with one module line and  *)
(* D its params module: when the Page has an import of D, before or after  *)
(* the module line, the transformation adds none and puts "Params, " in    *)
(* front of the exposing list of the first one (Params when it had none);  *)
(* when it has none, the output has exactly one, exposing Params.          *)
ParamsImportMerged ==
    LET in == Original
    IN  (AfterTo /\ CountKind(in, "Module") = 1) =>
            LET m == CHOOSE k \in 1..Len(in) : in[k].kind = "Module"
                D == <<"G","e","n",".","P","a","r","a","m","s",".">> \o TrimStartMatches(in[m].name, <<"P","a","g","e","s",".">>)
                k == FindImport(in, D)
                j == FindImport(page, D)
            IN  /\ j # 0
                /\ IF k = 0
                   THEN /\ CountImport(page, D) = 1
                        /\ page[j].exposing = Some(<<"P","a","r","a","m","s">>)
                   ELSE /\ CountImport(page, D) = CountImport(in, D)
                        /\ page[j].exposing =
                               IF in[k].exposing = None THEN Some(<<"P","a","r","a","m","s">>)
                               ELSE Some(<<"P","a","r","a","m","s",","," ">> \o in[k].exposing[1])

----------------------------------------------------------------------------
(* C12: the exposing text of a module or import declaration is the         *)
(* interior of its parenthesized list, from the opening parenthesis to the *)
(* matching closing one, over as many lines as the list spans; it is None  *)
(* exactly when the declaration has no exposing keyword; and the           *)
(* declaration takes following lines only up to the one that closes the    *)
(* list.                                                                   *)

\* the lines the loop of Page::parse starts an iteration at
RECURSIVE ScanStarts(_, _)
ScanStarts(lines, i) ==
    IF i > Len(lines) THEN {}
    ELSE {i} \cup ScanStarts(lines, ScanBlock(lines, i).next)

HasExposingKeyword(line) ==
    LET tokens == SplitWhitespace(line)
    IN  \E k \in 1..Len(tokens) : tokens[k] = <<"e","x","p","o","s","i","n","g">>

\* the parentheses open at position k of s, counted from position a
Depth(s, a, k) ==
    Cardinality({m \in a..k : s[m] = "("}) - Cardinality({m \in a..k : s[m] = ")"})

\* the position of the parenthesis that closes the one at position a, 0 when
\* it is not closed
MatchingClose(s, a) ==
    IF \E k \in a..Len(s) : Depth(s, a, k) = 0
    THEN CHOOSE k \in a..Len(s) :
            Depth(s, a, k) = 0 /\ \A m \in a..(k - 1) : Depth(s, a, m) # 0
    ELSE 0

\* the lines i..j as one text
Joined(lines, i, j) == Concat(SubSeq(lines, i, j))

\* the list opened on line i is closed on line j
ClosesOn(lines, i, j) ==
    LET s == Joined(lines, i, j)
    IN  MatchingClose(s, IndexFrom(s, 1, "(")) # 0

ListCloses(lines, i) ==
    /\ Contains(lines[i], <<"(">>)
    /\ \E j \in i..Len(lines) : ClosesOn(lines, i, j)

\* the line that closes the list opened on line i
ListEnd(lines, i) ==
    CHOOSE j \in i..Len(lines) :
        ClosesOn(lines, i, j) /\ \A m \in i..(j - 1) : ~ClosesOn(lines, i, m)

ListInterior(lines, i) ==
    LET s == Joined(lines, i, ListEnd(lines, i))
        a == IndexFrom(s, 1, "(")
    IN  SubSeq(s, a + 1, MatchingClose(s, a) - 1)

ExposingIsListInterior ==
    pc = "parsed" =>
        LET lines == TrimmedLines(text)
        IN  \A i \in ScanStarts(lines, 1) :
                LineKind(lines[i]) \in {"Module", "Import"} =>
                    LET r == ScanBlock(lines, i)
                    IN  /\ (r.block.exposing = None) <=> ~HasExposingKeyword(lines[i])
                        /\ ~HasExposingKeyword(lines[i]) => r.next = i + 1
                        /\ (HasExposingKeyword(lines[i]) /\ ListCloses(lines, i)) =>
                               /\ r.block.exposing = Some(ListInterior(lines, i))
                               /\ r.next = ListEnd(lines, i) + 1

----------------------------------------------------------------------------
(* C13: the function blocks of a parsed Page.  The first line of a block   *)
(* of kind K starts with the keyword of K as its first token; every later  *)
(* line is blank, starts with a space or a tab, or starts with the keyword *)
(* and a space; the block is maximal - the line after it is none of the    *)
(* three - and that line starts the next block: no line is dropped.        *)

IsBlank(line) == \A k \in 1..Len(line) : IsWhitespace(line[k])

BelongsTo(line, kind) ==
    \/ IsBlank(line)
    \/ (line # <<>> /\ line[1] \in {" ", "\t"})
    \/ StartsWith(line, Keyword(kind) \o <<" ">>)

\* the lines a block was scanned from, for blocks that keep them
LinesOf(b) == IF b.kind \in FnKinds THEN b.lines ELSE <<b.text>>

FunctionBlocksMaximal ==
    pc = "parsed" =>
        LET lines == TrimmedLines(text)
        IN  /\ \A i \in ScanStarts(lines, 1) :
                   LET kind == LineKind(lines[i])
                       r == ScanBlock(lines, i)
                       n == Len(r.block.lines)
                   IN  kind \in FnKinds =>
                           /\ r.block.kind = kind
                           /\ r.block.lines = SubSeq(lines, i, i + n - 1)
                           /\ SplitWhitespace(r.block.lines[1])[1] = Keyword(kind)
                           /\ \A k \in 2..n : BelongsTo(r.block.lines[k], kind)
                           /\ i + n <= Len(lines) => ~BelongsTo(lines[i + n], kind)
                           /\ r.next = i + n
            /\ (\A k \in 1..Len(page) : page[k].kind \notin {"Module", "Import"}) =>
                   Concat([k \in 1..Len(page) |-> LinesOf(page[k])]) = lines

\* two clauses of update in one block, and the line after it in the next
FunctionBlocksMaximalWitness ==
    /\ pc = "parsed"
    /\ Len(page) = 2
    /\ page[1] = BlockFn("Update", Function(<<<<"u","p","d","a","t","e"," ","a"," ","=">>, <<"u","p","d","a","t","e"," ","b"," ","=">>>>))
    /\ page[2] = BlockOther(<<"z"," ","="," ","1">>)

----------------------------------------------------------------------------
(* C14: Page::parse never returns an error.  Every line is right-trimmed   *)
(* before the dispatch on a prefix that ends in a space, so a line given   *)
(* to Module::parse has a second token and a line given to Function::parse *)
(* has a first one: the run never stops at the parse.                      *)
ParseNeverFails ==
    /\ pc # "failed"
    /\ pc = "parsed" =>
           LET lines == TrimmedLines(text)
           IN  \A i \in ScanStarts(lines, 1) :
                   LET n == Len(SplitWhitespace(lines[i]))
                   IN  /\ LineKind(lines[i]) \in {"Module", "Import"} => n >= 2
                       /\ LineKind(lines[i]) \in FnKinds => n >= 1

\* a module keyword and a page keyword followed by whitespace only: both
\* lines are parsed, as opaque lines
ParseNeverFailsWitness ==
    /\ pc = "parsed"
    /\ Contains(text, <<"m","o","d","u","l","e"," ","\f","\n">>)
    /\ Contains(text, <<"p","a","g","e"," ","\t","U+3000","\n">>)
    /\ \E k \in 1..Len(page) : page[k] = BlockOther(<<"m","o","d","u","l","e">>)
    /\ \E k \in 1..Len(page) : page[k] = BlockOther(<<"p","a","g","e">>)

=============================================================================
